---- MODULE Spec2Model ----
(***************************************************************************)
(* State-machine model of the MultiUAT multi-domain translation task       *)
(* (fairseq/tasks/multiuat-multidomain-translation.py): task construction, *)
(* load_dataset, train_step with its one-time policy pretraining and its   *)
(* periodic reweighting of the domain sampling probabilities, and the      *)
(* sampling log.                                                           *)
(*                                                                         *)
(* Numbers.  A probability vector is an exact rational vector              *)
(*   [nan |-> BOOLEAN, num |-> <<n_1..n_N>>, den |-> d],  p_i = n_i / d,   *)
(* nan = TRUE standing for a tensor whose entries are NaN.  The policy     *)
(* (data actor) is kept as its exponentiated logits w_i = exp(z_i), so     *)
(* that softmax(z)_i = w_i / sum(w).  A reward is [nan, v].                *)
(***************************************************************************)
EXTENDS Integers, Sequences, FiniteSets, TLC

(* ------------------------------ bounds -------------------------------- *)
\* the trainer's update counter is explored up to this value
MaxUpdates == 4
\* load_dataset("train") is explored while the log has room for its 2 lines
MaxLogLines == 4
\* cfg.update_sampling_interval as explored (the default is 2000)
UpdateSamplingInterval == 2
\* cfg.data_actor_optim_step as explored (the default is 200)
DataActorOptimStep == 2
\* the fineness of one optimizer step on a logit: ln((StepDen + 1) / StepDen)
\* (the larger, the nearer to the learning rate of 0.0001)
StepDen == 4

(* ------------------------- program constants -------------------------- *)
\* 1 / 0.00000001, the threshold of the pretraining loop
EpsInv == 100000000

\* the domain names load_dataset derives from the lines of cfg.domain_file
Domains == <<"A", "B", "C">>
N == Len(Domains)
\* example counts of the three training corpora
DatasetSizes == <<1, 4, 5>>

\* reward_type values named by the configuration's documentation
RecognizedRewardTypes ==
    {"entropy", "xentropy", "enttp", "enteos", "pretp", "exptp", "vartp", "comtp"}
\* a reward_type outside that set
UnknownRewardType == "bleu"
\* the default of the reward_type field
DefaultRewardType == "entropy"
ConfigRewardTypes == RecognizedRewardTypes \cup {UnknownRewardType}
Temperatures == {"1", "inf"}
Splits == {"train", "valid"}

(* ------------------------------ helpers ------------------------------- *)
RECURSIVE SeqSum(_)
SeqSum(s) == IF s = <<>> THEN 0 ELSE Head(s) + SeqSum(Tail(s))

RECURSIVE GCD(_, _)
GCD(a, b) == IF b = 0 THEN a ELSE GCD(b, a % b)

RECURSIVE GCDSeq(_)
GCDSeq(s) == IF s = <<>> THEN 0 ELSE GCD(Head(s), GCDSeq(Tail(s)))

Reduce(w) == LET g == GCDSeq(w) IN IF g = 0 THEN w ELSE [i \in DOMAIN w |-> w[i] \div g]

Sign(x) == IF x > 0 THEN 1 ELSE IF x < 0 THEN 0 - 1 ELSE 0

Zeros == [i \in 1..N |-> 0]
NaNVec == [nan |-> TRUE, num |-> Zeros, den |-> 1]
Vec(num) == [nan |-> FALSE, num |-> num, den |-> SeqSum(num)]

Rew(v) == [nan |-> FALSE, v |-> v]
NaNRew == [nan |-> TRUE, v |-> 0]

(* --------------------------- the sampling log ------------------------- *)
\* str() of a float: one text per value (equal values print alike); nan
\* prints as the 0/0 cell
StrFloat(n, d, nan) ==
    IF nan \/ d = 0 THEN <<0, 0>> ELSE LET g == GCD(n, d) IN <<n \div g, d \div g>>

\* p.tolist() followed by the str() of each entry
ProbCells(p) == [i \in 1..N |-> StrFloat(p.num[i], p.den, p.nan)]

\* a line of the file: its comma-separated cells, and whether they read as
\* numbers
NamesLine(names) == [numeric |-> FALSE, cells |-> names]
ProbLine(p) == [numeric |-> TRUE, cells |-> ProbCells(p)]

\* write_sampling_log: the file is opened in append mode and gets one line
write_sampling_log(file, line) == Append(file, line)

(* ------------------- MultidomainCorpusSampledDataset ------------------ *)
\* get_sample_prob: p_i = size_i^(1/T) / sum_j size_j^(1/T)
get_sample_prob(sizes, temperature) ==
    IF temperature = "inf" THEN Vec([i \in 1..N |-> 1]) ELSE Vec(sizes)

\* non-negative entries that sum to 1 within 1e-6
IsProbVector(p) ==
    /\ ~p.nan
    /\ p.den > 0
    /\ \A i \in 1..N : p.num[i] >= 0
    /\ (SeqSum(p.num) - p.den) * 1000000 <= p.den
    /\ (p.den - SeqSum(p.num)) * 1000000 <= p.den

\* update_sampling_p without the check of its argument
UncheckedUpdateSamplingP(old, new) == [ok |-> TRUE, p |-> new]

\* update_sampling_p: validates the new vector, then swaps it in; an
\* invalid vector is rejected and reported, the old one stays
update_sampling_p(old, new) ==
    IF IsProbVector(new) THEN [ok |-> TRUE, p |-> new] ELSE [ok |-> FALSE, p |-> old]

(* ------------------------------ BaseActor ----------------------------- *)
\* a freshly built actor: equal logits
InitialActor == [nan |-> FALSE, w |-> [i \in 1..N |-> 1]]

\* softmax(data_actor(feature))
Softmax(a) == IF a.nan THEN NaNVec ELSE Vec(a.w)

\* the squared-error loss of the pretraining loop against its threshold:
\* mse_loss(prob, target) > 0.00000001, mse being the mean over the N
\* entries of (prob_i - target_i)^2
MseAboveEps(prob, target) ==
    LET sse == SeqSum([i \in 1..N |->
                   (prob.num[i] * target.den - target.num[i] * prob.den)
                 * (prob.num[i] * target.den - target.num[i] * prob.den)])
        m   == N * (prob.den * target.den) * (prob.den * target.den)
    IN  prob.nan \/ sse > m \div EpsInv

\* data_optimizer.step() on the squared-error loss: the optimizer is the
\* caller's; its step either lands on the target, or misses it on one side
\* or the other (too large a step oscillates around the target)
PretrainStepOutcomes(target) ==
    { [nan |-> FALSE, w |-> Reduce(target.num)],
      [nan |-> FALSE, w |-> Reduce([i \in 1..N |-> target.num[i] * target.num[i]])],
      [nan |-> FALSE, w |-> [i \in 1..N |-> 1]] }

\* one iteration of the optimization loop of update_sample_probability
\* with the loss negated (ascent on the rewards' cross-entropy)
GradStepAscent(a, rewards) ==
    IF a.nan \/ \E i \in 1..N : rewards[i].nan
    THEN [nan |-> TRUE, w |-> [i \in 1..N |-> 1]]
    ELSE LET R   == SeqSum([i \in 1..N |-> rewards[i].v])
             den == SeqSum(a.w)
             s   == [j \in 1..N |-> Sign(R * a.w[j] - rewards[j].v * den)]
         IN  [nan |-> FALSE,
              w |-> Reduce([j \in 1..N |-> a.w[j] * (StepDen + s[j])])]

\* one iteration of the optimization loop of update_sample_probability:
\* loss = sum_i r_i * (-log softmax(z)_i), whose gradient in logit j is
\* (sum r) * p_j - r_j; the optimizer moves each logit one small fixed step
\* against the sign of its gradient, which multiplies exp(z_j) by
\* (StepDen + 1) / StepDen, 1 or (StepDen - 1) / StepDen.  A NaN reward
\* makes the loss and with it every parameter NaN.
GradStep(a, rewards) ==
    IF a.nan \/ \E i \in 1..N : rewards[i].nan
    THEN [nan |-> TRUE, w |-> [i \in 1..N |-> 1]]
    ELSE LET R   == SeqSum([i \in 1..N |-> rewards[i].v])
             den == SeqSum(a.w)
             s   == [j \in 1..N |-> Sign(rewards[j].v * den - R * a.w[j])]
         IN  [nan |-> FALSE,
              w |-> Reduce([j \in 1..N |-> a.w[j] * (StepDen + s[j])])]

(* -------------------------- reward estimators -------------------------- *)
\* a probe batch: the number of non-padding target positions, the number
\* of positions holding the end-of-sequence symbol, and the level of the
\* model's uncertainty on it
ProbeBatches ==
    { [valid |-> v, eos |-> e, u |-> u] :
        v \in 0..2, e \in 0..1, u \in 1..2 }

\* the elif chain of update_sample_probability: the estimator a reward_type
\* selects, "undefined" for the final else
DispatchReward(reward_type) ==
    IF reward_type = "enttp" THEN "enttp"
    ELSE IF reward_type = "enteos" THEN "enteos"
    ELSE IF reward_type = "pretp" THEN "pretp"
    ELSE IF reward_type = "exptp" THEN "exptp"
    ELSE IF reward_type = "vartp" THEN "vartp"
    ELSE IF reward_type = "comtp" THEN "comtp"
    ELSE IF reward_type = "xentropy" THEN "xentropy"
    ELSE "undefined"

\* sum(e * mask) / sum(mask) over the non-padding positions: 0/0 without any
compute_enttp_monta_carlo(b) == IF b.valid = 0 THEN NaNRew ELSE Rew(b.u)
\* the same over the end-of-sequence positions
compute_enteos_monta_carlo(b) ==
    IF b.eos = 0 \/ b.valid = 0 THEN NaNRew ELSE Rew(b.u)
\* 1 - mean(exp(sum(prob * mask))): exp(0) = 1 without any position
compute_pretp_monte_carlo(b) == IF b.valid = 0 THEN Rew(0) ELSE Rew(b.u)
\* 1 - mean(exp(sum(prob * mask) / sum(mask)))
compute_exptp_monte_carlo(b) == IF b.valid = 0 THEN NaNRew ELSE Rew(b.u)
\* mean of torch.var over the masked positions: NaN below two positions
compute_vartp_monte_carlo(b) == IF b.valid < 2 THEN NaNRew ELSE Rew(b.u)
\* exp(var / mean_tp)
compute_comtp_monte_carlo(b) == IF b.valid < 2 THEN NaNRew ELSE Rew(b.u)
\* criterion loss in eval mode (divided by sample["ntokens"] by the caller)
compute_xentropy(b) == Rew(b.u)

\* what the body of the per-domain loop does with one probe batch:
\* [exc |-> the exception it raises, "" for none, r |-> the reward]
\* `fail` is a forward pass of the model raising (a RuntimeError)
EstimateReward(reward_type, b, fail) ==
    LET est == DispatchReward(reward_type) IN
    IF est = "undefined" THEN [exc |-> "RuntimeError: undefined reward", r |-> NaNRew]
    ELSE IF fail THEN [exc |-> "RuntimeError: forward", r |-> NaNRew]
    ELSE IF est = "xentropy" /\ b.valid = 0
         THEN [exc |-> "ZeroDivisionError", r |-> NaNRew]
    ELSE [exc |-> "",
          r |-> CASE est = "enttp"    -> compute_enttp_monta_carlo(b)
                  [] est = "enteos"   -> compute_enteos_monta_carlo(b)
                  [] est = "pretp"    -> compute_pretp_monte_carlo(b)
                  [] est = "exptp"    -> compute_exptp_monte_carlo(b)
                  [] est = "vartp"    -> compute_vartp_monte_carlo(b)
                  [] est = "comtp"    -> compute_comtp_monte_carlo(b)
                  [] est = "xentropy" -> compute_xentropy(b)]

\* line 502: pretraining on every call that brings a data actor
ShouldPretrainAlways(pretrained, has_actor) == has_actor

\* line 502 of train_step
ShouldPretrain(pretrained, has_actor) == ~pretrained /\ has_actor

\* line 510 without the comparison with the step last handled
ShouldReweightNoGuard(step, has_actor, last) ==
    step % UpdateSamplingInterval = 0 /\ step # 0 /\ has_actor

\* line 510 without the test of the interval
ShouldReweightEveryStep(step, has_actor, last) ==
    step # 0 /\ has_actor /\ last # step

\* line 510 of train_step
ShouldReweight(step, has_actor, last) ==
    step % UpdateSamplingInterval = 0 /\ step # 0 /\ has_actor /\ last # step

(* ------------------------------- state --------------------------------- *)
VARIABLES
    cfg,                \* the configuration: reward_type, temperature
    task_built,         \* setup_task has returned the task object
    data_actor_pretrained,
    current_sampling_update_num,
    domains,            \* self.domains
    datasets,           \* the splits present in self.datasets
    train_p,            \* self.datasets["train"].p
    log_file,           \* the lines of cfg.sample_prob_log
    actor,              \* the parameters of the data actor
    num_updates,        \* the trainer's update counter
    pc,                 \* where the running train_step is ("idle": none runs)
    update_num,         \* train_step's argument
    has_actor,          \* train_step's data_actor is not None
    l_above,            \* pretrain_data_actor's l > 0.00000001
    all_reward_list,    \* update_sample_probability's list
    opt_iter,           \* iterations done of its optimization loop
    prob,               \* the vector update_sample_probability returns
    exc,                \* the exception leaving train_step, "" for none
    probe_keys,         \* the valid_key each reward of the list was computed for
    degenerate_probe,   \* history: a reward of the list came from a probe
                        \* batch without any valid position
    reweighted,         \* this train_step entered the reweighting branch
    p_at_call,          \* history: train_p when this train_step was entered
    log_at_call,        \* history: log_file when this train_step was entered
    actor_called,       \* history: some train_step got a data actor
    pretrain_started,   \* history: calls of pretrain_data_actor
    pretrain_done,      \* history: returns of pretrain_data_actor
    fired,              \* history: fired[s] reweightings completed at step s
    failed_at           \* history: the step of the last reweighting that
                        \* raised, 0 for none

vars == << cfg, task_built, data_actor_pretrained, current_sampling_update_num,
           domains, datasets, train_p, log_file, actor, num_updates, pc,
           update_num, has_actor, l_above, all_reward_list, opt_iter, prob, exc,
           reweighted, p_at_call, log_at_call, actor_called, pretrain_started,
           pretrain_done, fired, probe_keys, degenerate_probe, failed_at >>

taskVars == << data_actor_pretrained, current_sampling_update_num >>
dataVars == << domains, datasets, train_p, log_file >>
callVars == << update_num, has_actor, l_above, all_reward_list, opt_iter, prob,
               exc, reweighted, p_at_call, log_at_call, probe_keys,
               degenerate_probe >>
histVars == << actor_called, pretrain_started, pretrain_done, fired, failed_at >>

\* the state before setup_task: a configuration, nothing built
Init ==
    /\ cfg \in [reward_type : ConfigRewardTypes, temperature : Temperatures]
    /\ task_built = FALSE
    /\ data_actor_pretrained = FALSE
    /\ current_sampling_update_num = 0
    /\ domains = <<>>
    /\ datasets = {}
    /\ train_p = NaNVec
    /\ log_file = <<>>
    /\ actor = InitialActor
    /\ num_updates = 0
    /\ pc = "idle"
    /\ update_num = 0
    /\ has_actor = FALSE
    /\ l_above = FALSE
    /\ all_reward_list = <<>>
    /\ opt_iter = 0
    /\ prob = NaNVec
    /\ exc = ""
    /\ reweighted = FALSE
    /\ p_at_call = NaNVec
    /\ log_at_call = <<>>
    /\ actor_called = FALSE
    /\ pretrain_started = 0
    /\ pretrain_done = 0
    /\ fired = [s \in 0..(MaxUpdates + 1) |-> 0]
    /\ probe_keys = <<>>
    /\ degenerate_probe = FALSE
    /\ failed_at = 0

(* ------------------------------ operations ----------------------------- *)
\* setup_task and __init__: dictionaries are loaded, the domain file is
\* read, the flags are reset and an existing log file is removed; nothing
\* looks at cfg.reward_type
setup_task ==
    /\ ~task_built
    /\ task_built' = TRUE
    /\ data_actor_pretrained' = FALSE
    /\ current_sampling_update_num' = 0
    /\ log_file' = <<>>
    /\ UNCHANGED << cfg, domains, datasets, train_p, actor, num_updates, pc,
                    callVars, histVars >>

\* load_dataset(split): the split's dataset is rebuilt; for "train" the
\* size-based vector is computed and the header and that vector are logged
load_dataset(split) ==
    /\ task_built
    /\ pc = "idle"
    /\ split = "train" => Len(log_file) + 2 <= MaxLogLines
    /\ domains' = Domains
    /\ datasets' = datasets \cup {split}
    /\ IF split = "train"
       THEN LET p == get_sample_prob(DatasetSizes, cfg.temperature) IN
            /\ train_p' = p
            /\ log_file' = write_sampling_log(
                               write_sampling_log(log_file, NamesLine(Domains)),
                               ProbLine(p))
       ELSE UNCHANGED << train_p, log_file >>
    /\ UNCHANGED << cfg, task_built, taskVars, actor, num_updates, pc, callVars,
                    histVars >>

\* the trainer counts an update
advance ==
    /\ pc = "idle"
    /\ num_updates < MaxUpdates
    /\ num_updates' = num_updates + 1
    /\ UNCHANGED << cfg, task_built, taskVars, dataVars, actor, pc, callVars,
                    histVars >>

\* train_step is entered (line 502): with both splits loaded, at the
\* trainer's current update, with or without a data actor
train_step_enter ==
    /\ task_built
    /\ pc = "idle"
    /\ {"train", "valid"} \subseteq datasets
    /\ \E da \in BOOLEAN :
        /\ has_actor' = da
        /\ actor_called' = (actor_called \/ da)
        /\ IF ShouldPretrain(data_actor_pretrained, da)
           THEN /\ pc' = "pretrain"
                /\ l_above' = TRUE
                /\ pretrain_started' = pretrain_started + 1
           ELSE /\ pc' = "guard"
                /\ UNCHANGED << l_above, pretrain_started >>
    /\ update_num' = num_updates
    /\ exc' = ""
    /\ reweighted' = FALSE
    /\ p_at_call' = train_p
    /\ log_at_call' = log_file
    /\ UNCHANGED << cfg, task_built, taskVars, dataVars, actor, num_updates,
                    all_reward_list, opt_iter, prob, pretrain_done, fired,
                    probe_keys, degenerate_probe, failed_at >>

\* pretrain_data_actor, one turn of `while l > 0.00000001`: the loss of the
\* current policy against datasets["train"].p is taken, then the optimizer
\* steps
pretrain_iter ==
    /\ pc = "pretrain"
    /\ l_above
    /\ l_above' = MseAboveEps(Softmax(actor), train_p)
    /\ actor' \in PretrainStepOutcomes(train_p)
    /\ UNCHANGED << cfg, task_built, taskVars, dataVars, num_updates, pc,
                    update_num, has_actor, all_reward_list, opt_iter, prob, exc,
                    reweighted, p_at_call, log_at_call, probe_keys,
                    degenerate_probe, histVars >>

\* the loop is left and the vector the policy was fitted to is logged
pretrain_exit_logs ==
    /\ pc = "pretrain"
    /\ ~l_above
    /\ data_actor_pretrained' = TRUE
    /\ pretrain_done' = pretrain_done + 1
    /\ pc' = "guard"
    /\ log_file' = write_sampling_log(log_file, ProbLine(train_p))
    /\ UNCHANGED << cfg, task_built, current_sampling_update_num, domains,
                    datasets, train_p, actor, num_updates, callVars, actor_called,
                    pretrain_started, fired, failed_at >>

\* the loop is left, pretrain_data_actor returns and line 504 sets the flag
pretrain_exit ==
    /\ pc = "pretrain"
    /\ ~l_above
    /\ data_actor_pretrained' = TRUE
    /\ pretrain_done' = pretrain_done + 1
    /\ pc' = "guard"
    /\ UNCHANGED << cfg, task_built, current_sampling_update_num, dataVars, actor,
                    num_updates, callVars, actor_called, pretrain_started, fired,
                    failed_at >>

\* line 510 with the step recorded as soon as the branch is entered
train_step_guard_records_first ==
    /\ pc = "guard"
    /\ IF ShouldReweight(update_num, has_actor, current_sampling_update_num)
       THEN /\ pc' = "reward"
            /\ reweighted' = TRUE
            /\ all_reward_list' = <<>>
            /\ probe_keys' = <<>>
            /\ degenerate_probe' = FALSE
            /\ current_sampling_update_num' = update_num
       ELSE /\ pc' = "forward"
            /\ UNCHANGED << reweighted, all_reward_list, probe_keys,
                            degenerate_probe, current_sampling_update_num >>
    /\ UNCHANGED << cfg, task_built, data_actor_pretrained, dataVars, actor,
                    num_updates, update_num, has_actor, l_above, opt_iter, prob,
                    exc, p_at_call, log_at_call, histVars >>

\* line 510: whether this call reweights
train_step_guard ==
    /\ pc = "guard"
    /\ IF ShouldReweight(update_num, has_actor, current_sampling_update_num)
       THEN /\ pc' = "reward"
            /\ reweighted' = TRUE
            /\ all_reward_list' = <<>>
            /\ probe_keys' = <<>>
            /\ degenerate_probe' = FALSE
       ELSE /\ pc' = "forward"
            /\ UNCHANGED << reweighted, all_reward_list, probe_keys,
                            degenerate_probe >>
    /\ UNCHANGED << cfg, task_built, taskVars, dataVars, actor, num_updates,
                    update_num, has_actor, l_above, opt_iter, prob, exc, p_at_call,
                    log_at_call, histVars >>

\* where update_sample_probability goes when a domain's estimation raises:
\* on with the rewards gathered so far
ContinueWithPartial == "optim"

\* where update_sample_probability goes when a domain's estimation raises:
\* nothing catches it, the exception leaves train_step
OnEstimationFailure == "raised"

\* the i-th key of datasets["train"].datasets, the OrderedDict load_dataset
\* fills in the order of the domain list
ValidKey(i) == Domains[i]

\* a probe batch without any position under the estimator's target mask
Degenerate(est, b) ==
    IF est = "enteos" THEN b.eos = 0 \/ b.valid = 0 ELSE b.valid = 0

\* update_sample_probability, one turn of the loop over the domains: the
\* domain's probe batch is fetched from datasets["valid"] and its reward
\* appended
reward_domain ==
    /\ pc = "reward"
    /\ Len(all_reward_list) < N
    /\ \E b \in ProbeBatches, fail \in BOOLEAN :
        LET e == EstimateReward(cfg.reward_type, b, fail) IN
        IF e.exc # ""
        THEN /\ pc' = OnEstimationFailure
             /\ exc' = e.exc
             /\ opt_iter' = 0
             /\ failed_at' = update_num
             /\ UNCHANGED << all_reward_list, probe_keys, degenerate_probe >>
        ELSE /\ all_reward_list' = Append(all_reward_list, e.r)
             /\ probe_keys' = Append(probe_keys, ValidKey(Len(all_reward_list) + 1))
             /\ degenerate_probe' =
                    (degenerate_probe \/ Degenerate(DispatchReward(cfg.reward_type), b))
             /\ UNCHANGED << pc, exc, opt_iter, failed_at >>
    /\ UNCHANGED << cfg, task_built, taskVars, dataVars, actor, num_updates,
                    update_num, has_actor, l_above, prob, reweighted, p_at_call,
                    log_at_call, actor_called, pretrain_started, pretrain_done,
                    fired >>

\* every domain has its reward: grad_scale is built from the list
reward_done ==
    /\ pc = "reward"
    /\ Len(all_reward_list) = N
    /\ pc' = "optim"
    /\ opt_iter' = 0
    /\ UNCHANGED << cfg, task_built, taskVars, dataVars, actor, num_updates,
                    update_num, has_actor, l_above, all_reward_list, prob, exc,
                    reweighted, p_at_call, log_at_call, probe_keys,
                    degenerate_probe, histVars >>

\* the rewards the optimization loop scales by: those of the list, NaN
\* where the list has none
GradScale == [i \in 1..N |->
                 IF i <= Len(all_reward_list) THEN all_reward_list[i] ELSE NaNRew]

\* one turn of the optimization loop that also writes the policy's current
\* softmax into datasets["train"].p
optim_iter_in_place ==
    /\ pc = "optim"
    /\ opt_iter < DataActorOptimStep
    /\ actor' = GradStep(actor, GradScale)
    /\ opt_iter' = opt_iter + 1
    /\ train_p' = Softmax(actor')
    /\ UNCHANGED << cfg, task_built, taskVars, domains, datasets, log_file,
                    num_updates, pc, update_num, has_actor, l_above,
                    all_reward_list, prob, exc, reweighted, p_at_call,
                    log_at_call, probe_keys, degenerate_probe, histVars >>

\* one turn of `for _ in range(cfg.data_actor_optim_step)`
optim_iter ==
    /\ pc = "optim"
    /\ opt_iter < DataActorOptimStep
    /\ actor' = GradStep(actor, GradScale)
    /\ opt_iter' = opt_iter + 1
    /\ UNCHANGED << cfg, task_built, taskVars, dataVars, num_updates, pc,
                    update_num, has_actor, l_above, all_reward_list, prob, exc,
                    reweighted, p_at_call, log_at_call, probe_keys,
                    degenerate_probe, histVars >>

\* the loop is over and the returned softmax is written to the log at once,
\* ahead of the push
optim_done_logs_first ==
    /\ pc = "optim"
    /\ opt_iter = DataActorOptimStep
    /\ prob' = Softmax(actor)
    /\ log_file' = write_sampling_log(log_file, ProbLine(Softmax(actor)))
    /\ pc' = "push"
    /\ UNCHANGED << cfg, task_built, taskVars, domains, datasets, train_p, actor,
                    num_updates, update_num, has_actor, l_above, all_reward_list,
                    opt_iter, exc, reweighted, p_at_call, log_at_call, probe_keys,
                    degenerate_probe, histVars >>

\* the loop is over: the softmax of the policy is returned
optim_done ==
    /\ pc = "optim"
    /\ opt_iter = DataActorOptimStep
    /\ prob' = Softmax(actor)
    /\ pc' = "push"
    /\ UNCHANGED << cfg, task_built, taskVars, dataVars, actor, num_updates,
                    update_num, has_actor, l_above, all_reward_list, opt_iter, exc,
                    reweighted, p_at_call, log_at_call, probe_keys,
                    degenerate_probe, histVars >>

\* line 517: datasets["train"].update_sampling_p(p)
push ==
    /\ pc = "push"
    /\ LET res == update_sampling_p(train_p, prob) IN
        /\ train_p' = res.p
        /\ IF res.ok
           THEN pc' = "log" /\ UNCHANGED << exc, failed_at >>
           ELSE /\ pc' = "raised"
                /\ exc' = "ValueError: rejected probabilities"
                /\ failed_at' = update_num
    /\ UNCHANGED << cfg, task_built, taskVars, domains, datasets, log_file, actor,
                    num_updates, update_num, has_actor, l_above, all_reward_list,
                    opt_iter, prob, reweighted, p_at_call, log_at_call, probe_keys,
                    degenerate_probe, actor_called, pretrain_started,
                    pretrain_done, fired >>

\* line 518: write_sampling_log(datasets["train"].p.tolist())
log_append ==
    /\ pc = "log"
    /\ log_file' = write_sampling_log(log_file, ProbLine(train_p))
    /\ pc' = "record"
    /\ UNCHANGED << cfg, task_built, taskVars, domains, datasets, train_p, actor,
                    num_updates, callVars, histVars >>

\* line 520: current_sampling_update_num = update_num
record_step ==
    /\ pc = "record"
    /\ current_sampling_update_num' = update_num
    /\ fired' = [fired EXCEPT ![update_num] = @ + 1]
    /\ pc' = "forward"
    /\ UNCHANGED << cfg, task_built, data_actor_pretrained, dataVars, actor,
                    num_updates, callVars, actor_called, pretrain_started,
                    pretrain_done, failed_at >>

\* line 523: the criterion's forward pass on the sample
forward ==
    /\ pc = "forward"
    /\ pc' = "backward"
    /\ UNCHANGED << cfg, task_built, taskVars, dataVars, actor, num_updates,
                    callVars, histVars >>

\* line 527: optimizer.backward(loss); line 529 returns the triple
backward ==
    /\ pc = "backward"
    /\ pc' = "returned"
    /\ UNCHANGED << cfg, task_built, taskVars, dataVars, actor, num_updates,
                    callVars, histVars >>

\* the caller has train_step's result or its exception; the call is over
train_step_leave ==
    /\ pc \in {"returned", "raised"}
    /\ pc' = "idle"
    /\ update_num' = 0
    /\ has_actor' = FALSE
    /\ l_above' = FALSE
    /\ all_reward_list' = <<>>
    /\ opt_iter' = 0
    /\ prob' = NaNVec
    /\ exc' = ""
    /\ reweighted' = FALSE
    /\ p_at_call' = NaNVec
    /\ log_at_call' = <<>>
    /\ probe_keys' = <<>>
    /\ degenerate_probe' = FALSE
    /\ UNCHANGED << cfg, task_built, taskVars, dataVars, actor, num_updates,
                    histVars >>

Next ==
    \/ setup_task
    \/ \E split \in Splits : load_dataset(split)
    \/ advance
    \/ train_step_enter
    \/ pretrain_iter
    \/ pretrain_exit
    \/ train_step_guard
    \/ reward_domain
    \/ reward_done
    \/ optim_iter
    \/ optim_done
    \/ push
    \/ log_append
    \/ record_step
    \/ forward
    \/ backward
    \/ train_step_leave

Spec == Init /\ [][Next]_vars

\* the running call keeps running: Python executes the statements of
\* train_step one after the other, whatever their outcome
FairSpec == Spec /\ WF_vars(pretrain_iter) /\ WF_vars(pretrain_exit)

(* =============================== claims ================================ *)
\* the positions of train_step inside update_sample_probability
InUpdateSampleProbability == pc \in {"reward", "optim"}

\* the exceptions a domain's reward estimation raises
EstimationFailures == {"RuntimeError: forward", "ZeroDivisionError"}

\* C1: over the train_step calls of one task, pretrain_data_actor is called
\* exactly once, in the first call that brings a data actor; it has returned
\* before update_sample_probability first runs; and once
\* data_actor_pretrained is set (pretraining has returned) it stays set.
C1_PretrainOnce ==
    /\ pretrain_started = (IF actor_called THEN 1 ELSE 0)
    /\ pretrain_done <= pretrain_started
    /\ (InUpdateSampleProbability \/ reweighted) =>
           (pretrain_done = 1 /\ data_actor_pretrained)
    /\ pretrain_done >= 1 => data_actor_pretrained
    /\ data_actor_pretrained => pretrain_done = 1

\* a second reweighting is under way, many calls after the one pretraining
C1_Witness ==
    /\ pc = "reward"
    /\ fired[UpdateSamplingInterval] = 1
    /\ update_num = 2 * UpdateSamplingInterval
    /\ pretrain_started = 1

\* C2: when the reward estimation of a domain fails, the log has no line it
\* did not have when the train_step began and the active vector is the one
\* of that moment; and the policy loop, the push and the log append only
\* ever run on a reward list that has all N domains.
C2_FailedCycleCommitsNothing ==
    /\ (pc = "raised" /\ exc \in EstimationFailures) =>
           /\ Len(log_file) = Len(log_at_call)
           /\ log_file = log_at_call
           /\ train_p = p_at_call
    /\ pc \in {"optim", "push", "log", "record"} => Len(all_reward_list) = N

\* the estimation of the third domain failed, two rewards were in the list,
\* and an earlier reweighting had replaced the size-based vector
C2_Witness ==
    /\ pc = "raised"
    /\ exc = "RuntimeError: forward"
    /\ Len(all_reward_list) = 2
    /\ Len(log_file) = 3
    /\ train_p # get_sample_prob(DatasetSizes, cfg.temperature)

\* C3: a train_step that entered the reweighting branch never ends with an
\* exception: when the estimation or the policy update fails (the
\* configuration being supported), it goes on to the forward and backward
\* pass and returns.
C3_TrainingNeverHalted ==
    (reweighted /\ exc # "RuntimeError: undefined reward") => pc # "raised"

\* C4: with the steps non-decreasing, at most one reweighting completes per
\* value of update_num.
C4_AtMostOncePerStep == \A s \in DOMAIN fired : fired[s] <= 1

\* a later call at a step whose reweighting is done goes straight on
C4_Witness ==
    /\ pc = "forward"
    /\ has_actor
    /\ ~reweighted
    /\ update_num = UpdateSamplingInterval
    /\ fired[update_num] = 1

\* C5: a train_step with a data actor enters the reweighting branch exactly
\* when its step is a positive multiple of the interval at which no
\* reweighting has completed yet.
C5_FiresIffDue ==
    [][ (pc = "guard" /\ has_actor) =>
            ( (pc' = "reward") <=>
              ( /\ update_num % UpdateSamplingInterval = 0
                /\ update_num > 0
                /\ fired[update_num] = 0 ) ) ]_vars

\* the first call at the second positive multiple has just fired
C5_Witness ==
    /\ pc = "reward"
    /\ has_actor
    /\ all_reward_list = <<>>
    /\ update_num = 2 * UpdateSamplingInterval
    /\ fired[update_num] = 0

\* C6: the "undefined reward" error of the estimation loop is never what
\* reports a reward_type outside the recognized set (setup would have).
C6_UnknownMetricFailsAtSetup ==
    exc = "RuntimeError: undefined reward" => cfg.reward_type \in RecognizedRewardTypes

\* C7: no recognized reward_type, the default included, ends in the
\* "undefined reward" error.
C7_RecognizedTypesDispatch ==
    cfg.reward_type \in RecognizedRewardTypes => exc # "RuntimeError: undefined reward"

\* C8: line 1 of the log is the header, line 2 the size-based vector, and
\* every later line is a probability vector (so no second header).
C8_LogShape ==
    /\ Len(log_file) >= 1 =>
           (~log_file[1].numeric /\ log_file[1].cells = Domains)
    /\ Len(log_file) >= 2 =>
           /\ log_file[2].numeric
           /\ log_file[2].cells =
                  ProbCells(get_sample_prob(DatasetSizes, cfg.temperature))
    /\ \A k \in 3..Len(log_file) : log_file[k].numeric

\* C9: pretrain_data_actor always returns.
C9_PretrainTerminates == (pc = "pretrain") ~> (pc # "pretrain")

\* C10: once the training split is loaded, the active vector has
\* non-negative entries that sum to 1 within 1e-6.
C10_ActiveVectorIsDistribution == ("train" \in datasets) => IsProbVector(train_p)

\* a reweighting has just installed a vector other than the previous one
C10_Witness ==
    /\ pc = "log"
    /\ reweighted
    /\ train_p = prob
    /\ train_p # p_at_call

\* C11: a reward computed from a probe batch without any valid position is
\* never in the reward list the policy loop runs on (the estimator reports a
\* failure instead).
C11_DegenerateProbeFails == ~(degenerate_probe /\ pc = "optim" /\ opt_iter > 0)

\* C12: whatever the point of a train_step, datasets["train"].p is either
\* the whole vector of the call's start or, from the one update_sampling_p
\* call after the finished optimization loop on, the whole softmax of the
\* final policy: what a sampling read finds at any point is one of the two.
C12_WholesaleSwap ==
    /\ pc \in {"pretrain", "guard", "reward", "optim", "push", "raised"} =>
           train_p = p_at_call
    /\ pc \in {"log", "record"} =>
           /\ train_p = prob
           /\ prob = Softmax(actor)
           /\ opt_iter = DataActorOptimStep
           /\ IsProbVector(train_p)
    /\ pc \in {"forward", "backward", "returned"} =>
           train_p = (IF reweighted THEN prob ELSE p_at_call)

\* the optimization loop is half-way, the policy has moved and the active
\* vector is still the old one
C12_Witness ==
    /\ pc = "optim"
    /\ opt_iter = 1
    /\ Softmax(actor) # train_p
    /\ train_p = p_at_call

(* ------------- the policy update on drawn reward vectors --------------- *)
\* reward values in tenths: 0.1, 0.5, 0.9
RewardLevels == {1, 5, 9}

\* update_sample_probability at the head of its optimization loop, in the
\* first reweighting of a task whose size-based vector is uniform
\* (temperature inf), so that the pretrained policy is the uniform one; the
\* reward list is drawn
PolicyInit ==
    /\ cfg \in [reward_type : {t \in ConfigRewardTypes : DispatchReward(t) # "undefined"},
                temperature : {"inf"}]
    /\ task_built = TRUE
    /\ data_actor_pretrained = TRUE
    /\ current_sampling_update_num = 0
    /\ domains = Domains
    /\ datasets = {"train", "valid"}
    /\ train_p = get_sample_prob(DatasetSizes, "inf")
    /\ log_file = write_sampling_log(
                      write_sampling_log(<<>>, NamesLine(Domains)),
                      ProbLine(get_sample_prob(DatasetSizes, "inf")))
    /\ actor = InitialActor
    /\ num_updates = UpdateSamplingInterval
    /\ pc = "optim"
    /\ update_num = UpdateSamplingInterval
    /\ has_actor = TRUE
    /\ l_above = FALSE
    /\ all_reward_list \in [1..N -> {Rew(v) : v \in RewardLevels}]
    /\ opt_iter = 0
    /\ prob = NaNVec
    /\ exc = ""
    /\ reweighted = TRUE
    /\ p_at_call = train_p
    /\ log_at_call = log_file
    /\ actor_called = TRUE
    /\ pretrain_started = 1
    /\ pretrain_done = 1
    /\ fired = [s \in 0..(MaxUpdates + 1) |-> 0]
    /\ probe_keys = Domains
    /\ degenerate_probe = FALSE
    /\ failed_at = 0

PolicyNext == optim_iter \/ optim_done

PolicySpec == PolicyInit /\ [][PolicyNext]_vars

\* C13: from the uniform policy, with rewards 0.1, 0.5, 0.9, the vector
\* update_sample_probability returns after its data_actor_optim_step steps
\* gives domain 3 more than the uniform 1/3 it had and more than domains 1
\* and 2.
C13_MassMovesToHighestReward ==
    (pc = "push" /\ all_reward_list = <<Rew(1), Rew(5), Rew(9)>>) =>
        /\ ~prob.nan
        /\ prob.num[3] * Softmax(InitialActor).den
               > Softmax(InitialActor).num[3] * prob.den
        /\ prob.num[3] > prob.num[1]
        /\ prob.num[3] > prob.num[2]

\* the update has returned for that reward vector
C13_Witness ==
    /\ pc = "push"
    /\ all_reward_list = <<Rew(1), Rew(5), Rew(9)>>
    /\ opt_iter = DataActorOptimStep
    /\ prob = Softmax(actor)
    /\ prob # Softmax(InitialActor)

\* C14: a reweighting runs its stages in one order: the rewards of the N
\* domains are gathered in the order of the domain list (the list is
\* index-aligned with the domains) before the first step of the policy loop;
\* the loop has done all its steps before the push; the push precedes the
\* log append; the log append precedes the recording of the step; and the
\* forward/backward pass of the call comes after all of them.
C14_StageOrder ==
    /\ probe_keys = SubSeq(Domains, 1, Len(all_reward_list))
    /\ pc = "reward" =>
           /\ "valid" \in datasets
           /\ opt_iter = 0
           /\ train_p = p_at_call
           /\ log_file = log_at_call
           /\ current_sampling_update_num # update_num
    /\ pc = "optim" =>
           /\ Len(all_reward_list) = N
           /\ train_p = p_at_call
           /\ log_file = log_at_call
           /\ current_sampling_update_num # update_num
    /\ pc = "push" =>
           /\ Len(all_reward_list) = N
           /\ opt_iter = DataActorOptimStep
           /\ train_p = p_at_call
           /\ log_file = log_at_call
           /\ current_sampling_update_num # update_num
    /\ pc = "log" =>
           /\ opt_iter = DataActorOptimStep
           /\ train_p = prob
           /\ log_file = log_at_call
           /\ current_sampling_update_num # update_num
    /\ pc = "record" =>
           /\ train_p = prob
           /\ log_file = Append(log_at_call, ProbLine(prob))
           /\ current_sampling_update_num # update_num
    /\ (pc \in {"forward", "backward", "returned"} /\ reweighted) =>
           /\ Len(all_reward_list) = N
           /\ opt_iter = DataActorOptimStep
           /\ train_p = prob
           /\ log_file = Append(log_at_call, ProbLine(prob))
           /\ current_sampling_update_num = update_num

\* the backward pass of a call whose reweighting went through all stages
\* and changed the vector
C14_Witness ==
    /\ pc = "backward"
    /\ reweighted
    /\ probe_keys = Domains
    /\ train_p # p_at_call
    /\ Len(log_file) = Len(log_at_call) + 1
    /\ current_sampling_update_num = update_num

\* C15: a train_step that does not reweight (step 0, a step that is no
\* multiple of the interval, a step already recorded, no data actor) changes
\* neither the active vector nor the log nor the recorded step; the active
\* vector changes only in load_dataset("train") and in the push of a
\* reweighting; pretraining changes neither the vector nor the log.
C15_NoReweightNoChange ==
    [][ /\ (pc = "guard" /\ ~( /\ has_actor
                               /\ update_num # 0
                               /\ update_num % UpdateSamplingInterval = 0
                               /\ current_sampling_update_num # update_num ))
               => ~reweighted'
        /\ (pc # "idle" /\ ~reweighted) =>
               UNCHANGED << train_p, log_file, current_sampling_update_num >>
        /\ train_p' # train_p =>
               \/ pc = "push" /\ reweighted
               \/ /\ pc = "idle" /\ pc' = "idle"
                  /\ train_p' = get_sample_prob(DatasetSizes, cfg.temperature)
        /\ pc = "pretrain" => UNCHANGED << train_p, log_file >>
      ]_vars

\* a call with a data actor, made after a reweighting replaced the vector,
\* that pretrained nothing, found its step already recorded and has returned
C15_Witness ==
    /\ pc = "returned"
    /\ ~reweighted
    /\ has_actor
    /\ current_sampling_update_num = update_num
    /\ train_p # get_sample_prob(DatasetSizes, cfg.temperature)
    /\ train_p = p_at_call
    /\ log_file = log_at_call

\* the reweightings completed so far, over all steps
CompletedReweightings ==
    fired[0] + SeqSum([s \in 1..(MaxUpdates + 1) |-> fired[s]])

\* C16: with the training split loaded, between operations the last line of
\* the log is the text of the active vector (the one read back from the
\* dataset) and the log has 2 lines plus one per completed reweighting.
C16_LogTracksActiveVector ==
    ("train" \in datasets /\ pc = "idle") =>
        /\ Len(log_file) >= 2
        /\ log_file[Len(log_file)] = ProbLine(train_p)
        /\ Len(log_file) = 2 + CompletedReweightings

\* C17: current_sampling_update_num is written only at line 520, when the
\* push and the log append of the reweighting are done; a reweighting that
\* raises leaves it as it was, so a later train_step at the step of the
\* failure, none having completed there, enters the reweighting branch again.
C17_RecordedAfterSuccess ==
    [][ /\ current_sampling_update_num' # current_sampling_update_num =>
               /\ pc = "record"
               /\ train_p = prob
               /\ log_file = Append(log_at_call, ProbLine(train_p))
               /\ current_sampling_update_num' = update_num
        /\ (pc' = "raised" /\ reweighted) =>
               /\ UNCHANGED current_sampling_update_num
               /\ current_sampling_update_num # update_num
        /\ ( /\ pc = "guard"
             /\ has_actor
             /\ update_num > 0
             /\ failed_at = update_num
             /\ fired[update_num] = 0 ) => pc' = "reward"
      ]_vars

\* the reweighting of a step is under way again after it had failed in an
\* earlier call at that step
C17_Witness ==
    /\ pc = "reward"
    /\ exc = ""
    /\ update_num > 0
    /\ failed_at = update_num
    /\ fired[update_num] = 0
    /\ current_sampling_update_num # update_num

====
